---- MODULE Spec2Model ----
(***************************************************************************)
(* The MCP gateway of gateway/src/mcp_gateway/server.py as a state machine. *)
(*                                                                         *)
(* One asyncio event loop runs every coroutine of the gateway, so the code *)
(* between two suspension points (await) is one atomic action here.  The   *)
(* tasks are: start_all_servers, one start_server task per configured      *)
(* server, the _monitor_stderr task that start_server creates, one         *)
(* message_endpoint task per HTTP request, and shutdown.  The              *)
(* child processes are the environment: each consumes the request lines    *)
(* written to its stdin and decides what, if anything, to write to stdout. *)
(*                                                                         *)
(* The FastAPI application awaits start_all_servers in its startup event   *)
(* and gateway.shutdown in its shutdown event; requests are served only    *)
(* between the two (Serving).                                              *)
(***************************************************************************)
EXTENDS Integers, Sequences, FiniteSets, TLC

NumServers == 2
NumClients == 2
\* further requests are taken only while each child's pipes hold at most this
\* many lines
MaxBacklog == 1
\* the recursion_limit of the agent workflow (50 in graph.py)
MaxSteps == 4

\* names of the servers of config['mcp']['servers'], in the order of the mapping
Names == 1..NumServers
\* one message_endpoint task per HTTP request
Clients == 1..NumClients

NoTask == <<"none", 0>>
\* a message_endpoint task that has returned
Gone == <<"gone", 0>>
StartTask(s) == <<"start", s>>
HttpTask(c) == <<"http", c>>

\* ---------------------------------------------------------------- JSON values
\* A Python dict is a record whose DOMAIN is its set of keys.
Null == [json |-> "null"]
EmptyDict == [json |-> "{}"]

Echo == [name |-> "echo", description |-> "echoes", input_schema |-> "object"]
Add == [name |-> "add"]
Nameless == [description |-> "no name"]

\* the tool lists a child may advertise in its reply to tools/list
ToolLists == {<<Echo>>, <<Add, Echo>>}

\* what a child may put in the result field of a reply
ListResults == {[tools |-> l] : l \in ToolLists} \cup {[tools |-> <<Nameless>>], EmptyDict, Null}
CallResults == {[content |-> "pong"], Null}
\* the error member of an error reply, and the text str() makes of it
ErrorPayload == [code |-> "-32000", message |-> "boom"]
ErrorText == "{'code': -32000, 'message': 'boom'}"
ArgObj == [x |-> 1]

VARIABLES
    startAllPc,   \* start_all_servers: "init", "gather", "done", "raised"
    configured,   \* the server names of the loaded configuration
    startPc,      \* start_server task of each name: "none", "spawn", "sleep", "read", "wait", "done", "failed"
    queryErrors,  \* names for which "Error querying tools from ..." was logged
    monitor,      \* the _monitor_stderr task of each name: "none", "running", "ended"
    proc,         \* the child process of each name: "none", "running", "exited"
    childIn,      \* request lines written to the child's stdin and not yet consumed by it
    childOut,     \* lines in the StreamReader buffer of the child's stdout
    eof,          \* the child's stdout has reached end of file
    waiter,       \* the task suspended in readline() on the child's stdout, or NoTask
    sigterm,      \* SIGTERM at the child: "none", "pending", "ignored"
    servers,      \* Gateway.servers: the registered MCPServer entries, in insertion order
    httpPc,       \* message_endpoint task: "idle", "read", "wait", "done", "closed"
    req,          \* the body of the task's HTTP request
    sent,         \* the servers this task's call_tool wrote a request to, in order
    got,          \* the task that issued the request whose reply this task read, or NoTask
    resp,         \* the JSONResponse of the task
    shutPc,       \* Gateway.shutdown: "idle", "term", "wait", "done"
    shutIdx,      \* position of shutdown's loop in the entries it iterates
    termSent,     \* names whose process group was sent SIGTERM
    killSent,     \* names for which SIGKILL was attempted, and what became of it
    wfNode,       \* the node of the agent workflow graph that runs next
    messages,     \* state['messages'] of the agent workflow
    wfSteps       \* the steps the agent workflow has run

vars == <<startAllPc, configured, startPc, queryErrors, monitor, proc, childIn, childOut, eof, waiter, sigterm,
          servers, httpPc, req, sent, got, resp, shutPc, shutIdx, termSent, killSent,
          wfNode, messages, wfSteps>>

startVars == <<startAllPc, configured, startPc, queryErrors, monitor>>
childVars == <<proc, childIn, childOut, eof, waiter, sigterm>>
httpVars == <<httpPc, req, sent, got, resp>>
shutVars == <<shutPc, shutIdx, termSent, killSent>>
wfVars == <<wfNode, messages, wfSteps>>
gatewayVars == <<startVars, childVars, servers, httpVars, shutVars>>

NoReq == [method |-> "none"]
NoResp == [status_code |-> 0]

Init ==
    /\ startAllPc = "init"
    /\ configured = {}
    /\ startPc = [s \in Names |-> "none"]
    /\ queryErrors = {}
    /\ monitor = [s \in Names |-> "none"]
    /\ proc = [s \in Names |-> "none"]
    /\ childIn = [s \in Names |-> <<>>]
    /\ childOut = [s \in Names |-> <<>>]
    /\ eof = [s \in Names |-> FALSE]
    /\ waiter = [s \in Names |-> NoTask]
    /\ sigterm = [s \in Names |-> "none"]
    /\ servers = <<>>
    /\ httpPc = [c \in Clients |-> "idle"]
    /\ req = [c \in Clients |-> NoReq]
    /\ sent = [c \in Clients |-> <<>>]
    /\ got = [c \in Clients |-> NoTask]
    /\ resp = [c \in Clients |-> NoResp]
    /\ shutPc = "idle"
    /\ shutIdx = 0
    /\ termSent = {}
    /\ killSent = [s \in Names |-> "none"]
    /\ wfNode = "__start__"
    /\ messages = <<>>
    /\ wfSteps = 0

\* ---------------------------------------------------------------- exceptions
Returned(v) == [ok |-> TRUE, val |-> v]
Raised(t, m) == [ok |-> FALSE, exc |-> t, msg |-> m]

\* ------------------------------------------------- _communicate_with_server
\* The request line of lines 58-64; "from" is not on the wire (the id is the
\* constant 1): it names the issuing task so that replies can be told apart.
Request(task, method, params) ==
    [jsonrpc |-> "2.0", method |-> method, params |-> params, id |-> 1, from |-> task]

\* A line of a child's stdout. "re" is not on the wire either: the task whose
\* request the child was answering when it wrote the line.
ResultLine(r, v) == [kind |-> "result", val |-> v, re |-> r.from]
ErrorLine(r) == [kind |-> "error", val |-> ErrorPayload, re |-> r.from]
MalformedLine(r) == [kind |-> "malformed", val |-> [raw |-> "not json"], re |-> r.from]
\* readline() returning b"": the stream is closed
EOFLine == [kind |-> "eof", val |-> [raw |-> ""], re |-> NoTask]

\* Lines 72-83 on the line that readline() returned.
\* _communicate_with_server returning the result of an error response
ParseResponseIgnoringError(line) ==
    IF line.kind = "eof" THEN Raised("Exception", "Empty response")
    ELSE IF line.kind = "malformed" THEN Raised("JSONDecodeError", "Expecting value")
    ELSE IF line.kind = "error" THEN Returned(Null)
    ELSE Returned(line.val)

ParseResponse(line) ==
    IF line.kind = "eof" THEN Raised("Exception", "Empty response")
    ELSE IF line.kind = "malformed" THEN Raised("JSONDecodeError", "Expecting value")
    ELSE IF line.kind = "error" THEN Raised("Exception", ErrorText)
    ELSE Returned(line.val)

\* Lines 68-69: the request line goes into the child's stdin pipe. Nothing reads
\* the pipe of a child that has exited.
WriteRequest(s, r) ==
    childIn' = [childIn EXCEPT ![s] = IF proc[s] = "running" THEN Append(@, r) ELSE @]

\* Line 69, await stdin.drain(): once the child has ended and the loop has seen
\* its pipes close, drain() raises ConnectionResetError; until then the write
\* is accepted.
DrainOutcomes(s) == IF proc[s] = "exited" THEN {"ok", "lost"} ELSE {"ok"}
ConnectionLost == Raised("ConnectionResetError", "Connection lost")

\* Line 72, asyncio.StreamReader.readline(): a buffered line is returned at once,
\* then end of file; otherwise the caller suspends as the stream's one waiter, and
\* a second caller finds the waiter set and gets RuntimeError.
ReadLine(task, s) ==
    IF childOut[s] # <<>> THEN [act |-> "line", line |-> Head(childOut[s])]
    ELSE IF eof[s] THEN [act |-> "line", line |-> EOFLine]
    ELSE IF waiter[s] # NoTask /\ waiter[s] # task THEN [act |-> "busy", line |-> EOFLine]
    ELSE [act |-> "suspend", line |-> EOFLine]

\* A task at readline() runs when it has just written its request, or when the
\* stream woke it (feeding data or end of file clears the waiter).
\* one reader at a time over all the servers: a task runs only while no task
\* is suspended on the stream of another server
CanReadOneAtATime(task, s, pc) ==
    /\ pc = "read" \/ (pc = "wait" /\ waiter[s] # task)
    /\ \A x \in Names \ {s} : waiter[x] = NoTask

CanRead(task, s, pc) == pc = "read" \/ (pc = "wait" /\ waiter[s] # task)

\* What _communicate_with_server returns or raises once readline() is over.
Communicated(rd) ==
    IF rd.act = "busy"
    THEN Raised("RuntimeError", "readline() called while another coroutine is already waiting for incoming data")
    ELSE ParseResponse(rd.line)

\* The stream after the read: a returned line leaves the buffer, a suspended
\* caller becomes the waiter.
AfterRead(task, s, rd) ==
    /\ childOut' = [childOut EXCEPT ![s] = IF rd.act = "line" /\ @ # <<>> THEN Tail(@) ELSE @]
    /\ waiter' = [waiter EXCEPT ![s] = IF rd.act = "suspend" THEN task ELSE @]

\* ------------------------------------------------------------ start_server
\* Lines 118-124: the tool list start_server keeps. result.get on a result that
\* is no dict, and t['name'] on a tool without a name (line 121), raise inside
\* the try, and the except sets the empty list.
QueriedTools(out) ==
    IF ~out.ok THEN <<>>
    ELSE IF out.val = Null THEN <<>>
    ELSE LET l == IF "tools" \in DOMAIN out.val THEN out.val.tools ELSE <<>>
         IN IF \E i \in 1..Len(l) : "name" \notin DOMAIN l[i] THEN <<>> ELSE l

\* Lines 122-123: the except of the query is entered, and logs.
QueryRaised(out) ==
    \/ ~out.ok
    \/ out.val = Null
    \/ /\ "tools" \in DOMAIN out.val
       /\ \E i \in 1..Len(out.val.tools) : "name" \notin DOMAIN out.val.tools[i]

\* position of the entry of name s in the entries regs, 0 if there is none
RECURSIVE IndexOf(_, _, _)
IndexOf(regs, s, i) ==
    IF i > Len(regs) THEN 0
    ELSE IF regs[i].name = s THEN i
    ELSE IndexOf(regs, s, i + 1)

\* Line 126, self.servers[name] = server: a dict keeps insertion order, and
\* assigning to a key it holds replaces the value in place.
Registered(regs, s, tools) ==
    LET entry == [name |-> s, tools |-> tools]
        i == IndexOf(regs, s, 1)
    IN IF i = 0 THEN Append(regs, entry) ELSE [regs EXCEPT ![i] = entry]

\* start_server putting the server in the registry as soon as it is spawned
StartServerSpawnRegistering(s) ==
    /\ startPc[s] = "spawn"
    /\ startPc' = [startPc EXCEPT ![s] = "sleep"]
    /\ proc' = [proc EXCEPT ![s] = "running"]
    /\ servers' = Registered(servers, s, <<>>)
    /\ UNCHANGED <<startAllPc, configured, queryErrors, monitor, childIn, childOut, eof, waiter, sigterm>>
    /\ UNCHANGED <<httpVars, shutVars>>
    /\ UNCHANGED wfVars

\* Lines 99-105: create_subprocess_shell returns the process.
StartServerSpawn(s) ==
    /\ startPc[s] = "spawn"
    /\ startPc' = [startPc EXCEPT ![s] = "sleep"]
    /\ proc' = [proc EXCEPT ![s] = "running"]
    /\ UNCHANGED <<startAllPc, configured, queryErrors, monitor, childIn, childOut, eof, waiter, sigterm, servers>>
    /\ UNCHANGED <<httpVars, shutVars>>
    /\ UNCHANGED wfVars

\* Lines 99-105 and 133-135: create_subprocess_shell raises; start_server logs
\* and re-raises, and the task ends with the exception.
StartServerSpawnFails(s) ==
    /\ startPc[s] = "spawn"
    /\ startPc' = [startPc EXCEPT ![s] = "failed"]
    /\ UNCHANGED <<startAllPc, configured, queryErrors, monitor, childVars, servers, httpVars, shutVars>>
    /\ UNCHANGED wfVars

\* Lines 118-131 once _communicate_with_server is over with outcome out: the
\* tool list is set, the server is registered, the task that monitors the
\* child's stderr is created, start_server returns.
\* start_server letting the failure of the query end the task
StartServerFinishPropagating(s, out) ==
    IF ~QueryRaised(out)
    THEN /\ servers' = Registered(servers, s, QueriedTools(out))
         /\ monitor' = [monitor EXCEPT ![s] = "running"]
         /\ startPc' = [startPc EXCEPT ![s] = "done"]
         /\ UNCHANGED queryErrors
    ELSE /\ UNCHANGED <<servers, queryErrors, monitor>>
         /\ startPc' = [startPc EXCEPT ![s] = "failed"]

StartServerFinish(s, out) ==
    /\ servers' = Registered(servers, s, QueriedTools(out))
    /\ queryErrors' = IF QueryRaised(out) THEN queryErrors \cup {s} ELSE queryErrors
    /\ monitor' = [monitor EXCEPT ![s] = "running"]
    /\ startPc' = [startPc EXCEPT ![s] = "done"]

\* Lines 115-119 and 58-69: the sleep is over; the tools/list request is written.
StartServerQuery(s) ==
    /\ startPc[s] = "sleep"
    /\ \E drained \in DrainOutcomes(s) :
         IF drained = "ok"
         THEN /\ WriteRequest(s, Request(StartTask(s), "tools/list", EmptyDict))
              /\ startPc' = [startPc EXCEPT ![s] = "read"]
              /\ UNCHANGED <<servers, queryErrors, monitor>>
         ELSE /\ StartServerFinish(s, ConnectionLost)
              /\ UNCHANGED childIn
    /\ UNCHANGED <<startAllPc, configured, proc, childOut, eof, waiter, sigterm>>
    /\ UNCHANGED <<httpVars, shutVars>>
    /\ UNCHANGED wfVars

\* Lines 72-83 and 118-131: readline() on the child's stdout.
StartServerRead(s) ==
    /\ CanRead(StartTask(s), s, startPc[s])
    /\ LET rd == ReadLine(StartTask(s), s)
       IN /\ AfterRead(StartTask(s), s, rd)
          /\ IF rd.act = "suspend"
             THEN /\ startPc' = [startPc EXCEPT ![s] = "wait"]
                  /\ UNCHANGED <<servers, queryErrors, monitor>>
             ELSE StartServerFinish(s, Communicated(rd))
    /\ UNCHANGED <<startAllPc, configured, proc, childIn, eof, sigterm>>
    /\ UNCHANGED <<httpVars, shutVars>>
    /\ UNCHANGED wfVars

\* Lines 137-149, _monitor_stderr: the task logs the lines of the child's
\* stderr as they come, which changes nothing here, and ends when readline()
\* returns b'' : the stderr of a child that has ended is at end of file.
MonitorStderr(s) ==
    /\ monitor[s] = "running"
    /\ proc[s] = "exited"
    /\ monitor' = [monitor EXCEPT ![s] = "ended"]
    /\ UNCHANGED <<startAllPc, configured, startPc, queryErrors, childVars, servers, httpVars, shutVars>>
    /\ UNCHANGED wfVars

\* -------------------------------------------------------- start_all_servers
\* the configuration documents: the servers mapping is absent, or it is there
ConfigInputs ==
    {[present |-> FALSE, names |-> {}]} \cup {[present |-> TRUE, names |-> S] : S \in SUBSET Names}

\* Lines 156-171: the configuration is read; an absent or empty mapping raises
\* ValueError, otherwise one start_server task per entry is created (every
\* entry is taken to hold a command and its args).
\* start_all_servers without the check of line 159: no servers, nothing to start
StartAllServersUnchecked ==
    /\ startAllPc = "init"
    /\ \E cfg \in ConfigInputs :
         /\ startAllPc' = "gather"
         /\ configured' = cfg.names
         /\ startPc' = [s \in Names |-> IF s \in cfg.names THEN "spawn" ELSE "none"]
    /\ UNCHANGED <<queryErrors, monitor, childVars, servers, httpVars, shutVars>>
    /\ UNCHANGED wfVars

StartAllServers ==
    /\ startAllPc = "init"
    /\ \E cfg \in ConfigInputs :
         IF ~cfg.present \/ cfg.names = {}
         THEN /\ startAllPc' = "raised"
              /\ UNCHANGED <<configured, startPc>>
         ELSE /\ startAllPc' = "gather"
              /\ configured' = cfg.names
              /\ startPc' = [s \in Names |-> IF s \in cfg.names THEN "spawn" ELSE "none"]
    /\ UNCHANGED <<queryErrors, monitor, childVars, servers, httpVars, shutVars>>
    /\ UNCHANGED wfVars

\* Line 174, asyncio.gather(*tasks, return_exceptions=True): over when every task
\* is, whatever a task raised.
\* asyncio.gather without return_exceptions: the first exception is raised
GatherRaising(names, pcs) ==
    IF \E s \in names : pcs[s] = "failed" THEN "raised"
    ELSE IF \A s \in names : pcs[s] = "done" THEN "done" ELSE "pending"

Gather(names, pcs) ==
    IF \A s \in names : pcs[s] \in {"done", "failed"} THEN "done" ELSE "pending"

StartAllGather ==
    /\ startAllPc = "gather"
    /\ Gather(configured, startPc) # "pending"
    /\ startAllPc' = Gather(configured, startPc)
    /\ UNCHANGED <<configured, startPc, queryErrors, monitor, childVars, servers, httpVars, shutVars>>
    /\ UNCHANGED wfVars

\* ----------------------------------------------------------- child processes
\* The child ends: its stdout reaches end of file, which wakes the waiter; what
\* was in its stdin is lost.
Exited(s) ==
    /\ proc' = [proc EXCEPT ![s] = "exited"]
    /\ eof' = [eof EXCEPT ![s] = TRUE]
    /\ waiter' = [waiter EXCEPT ![s] = NoTask]
    /\ childIn' = [childIn EXCEPT ![s] = <<>>]

\* The child takes the next request from its stdin and writes one line to its
\* stdout: a result, an error, or something that is no JSON.
ChildReplies(s) ==
    /\ proc[s] = "running"
    /\ childIn[s] # <<>>
    /\ LET r == Head(childIn[s])
       IN \E line \in {ResultLine(r, v) : v \in IF r.method = "tools/list" THEN ListResults ELSE CallResults}
                      \cup {ErrorLine(r), MalformedLine(r)} :
            childOut' = [childOut EXCEPT ![s] = Append(@, line)]
    /\ childIn' = [childIn EXCEPT ![s] = Tail(@)]
    /\ waiter' = [waiter EXCEPT ![s] = NoTask]
    /\ UNCHANGED <<proc, eof, sigterm, startVars, servers, httpVars, shutVars>>
    /\ UNCHANGED wfVars

\* The child takes the next request and never answers it.
ChildHangs(s) ==
    /\ proc[s] = "running"
    /\ childIn[s] # <<>>
    /\ childIn' = [childIn EXCEPT ![s] = Tail(@)]
    /\ UNCHANGED <<proc, childOut, eof, waiter, sigterm, startVars, servers, httpVars, shutVars>>
    /\ UNCHANGED wfVars

\* The child ends of its own accord (its command fails, it crashes, it closes
\* its stdout instead of answering).
ChildExits(s) ==
    /\ proc[s] = "running"
    /\ Exited(s)
    /\ UNCHANGED <<childOut, sigterm, startVars, servers, httpVars, shutVars>>
    /\ UNCHANGED wfVars

\* The child gets the SIGTERM sent to its process group, and ends.
ChildTerminates(s) ==
    /\ proc[s] = "running"
    /\ sigterm[s] = "pending"
    /\ Exited(s)
    /\ sigterm' = [sigterm EXCEPT ![s] = "none"]
    /\ UNCHANGED <<childOut, startVars, servers, httpVars, shutVars>>
    /\ UNCHANGED wfVars

\* The child handles or blocks SIGTERM, and goes on running.
ChildIgnoresTerm(s) ==
    /\ proc[s] = "running"
    /\ sigterm[s] = "pending"
    /\ sigterm' = [sigterm EXCEPT ![s] = "ignored"]
    /\ UNCHANGED <<proc, childIn, childOut, eof, waiter, startVars, servers, httpVars, shutVars>>
    /\ UNCHANGED wfVars

\* ------------------------------------------------------------- list_all_tools
\* Lines 185-192: the dict made of one tool of the server named s.
ToolDict(tool, s) ==
    LET base == [name |-> tool.name,
                 description |-> IF "description" \in DOMAIN tool THEN tool.description ELSE "",
                 server |-> s]
    IN IF "input_schema" \in DOMAIN tool
       THEN [name |-> base.name, description |-> base.description, server |-> base.server,
             input_schema |-> tool.input_schema]
       ELSE base

\* Lines 184-192, the inner loop over one server's tools from position j on.
RECURSIVE ServerTools(_, _)
ServerTools(server, j) ==
    IF j > Len(server.tools) THEN <<>>
    ELSE <<ToolDict(server.tools[j], server.name)>> \o ServerTools(server, j + 1)

\* Lines 182-193, the outer loop over self.servers.values() from position i on.
\* list_all_tools prepending each server's tools instead of appending them
RECURSIVE ListAllToolsPrepending(_, _)
ListAllToolsPrepending(regs, i) ==
    IF i > Len(regs) THEN <<>>
    ELSE ListAllToolsPrepending(regs, i + 1) \o ServerTools(regs[i], 1)

RECURSIVE ListAllTools(_, _)
ListAllTools(regs, i) ==
    IF i > Len(regs) THEN <<>>
    ELSE ServerTools(regs[i], 1) \o ListAllTools(regs, i + 1)

\* ------------------------------------------------------------------ call_tool
\* Lines 198-199: the entries are scanned in order from position i on; the
\* position of the first one with a tool of that name, 0 when the loop runs out.
\* call_tool using the loop variable after the loop: the last entry scanned
FindServerLast(regs, tool_name, i) == Len(regs)

\* call_tool keeping the last entry that has the tool instead of the first
FindServerNewest(regs, tool_name, i) ==
    LET has == {k \in i..Len(regs) : \E j \in 1..Len(regs[k].tools) : regs[k].tools[j].name = tool_name}
    IN IF has = {} THEN 0 ELSE CHOOSE k \in has : \A m \in has : m <= k

RECURSIVE FindServer(_, _, _)
FindServer(regs, tool_name, i) ==
    IF i > Len(regs) THEN 0
    ELSE IF \E j \in 1..Len(regs[i].tools) : regs[i].tools[j].name = tool_name THEN i
    ELSE FindServer(regs, tool_name, i + 1)

\* ----------------------------------------------------------- message_endpoint
\* the JSON bodies of the HTTP requests
Bodies ==
    {[method |-> "tools/list"],
     [method |-> "unknown"],
     [method |-> "tools/call", params |-> [name |-> "echo", arguments |-> ArgObj]],
     [method |-> "tools/call", params |-> [name |-> "add"]]}

\* The HTTP requests are numbered in the order in which their tasks start.
Arrives(c) == httpPc[c] = "idle" /\ \A d \in Clients : d < c => httpPc[d] # "idle"

\* Line 267: params.get("arguments", {})
Arguments(params) == IF "arguments" \in DOMAIN params THEN params.arguments ELSE EmptyDict

\* Lines 261 and 270: JSONResponse(content), status 200
JSONResponse(content) == [status_code |-> 200, body |-> content]
\* Line 272
UnknownMethod == [status_code |-> 400, body |-> [error |-> "Unknown method"]]
\* Lines 273-275: what the endpoint answers when exception e reaches it
ErrorResponse(e) == [status_code |-> 500, body |-> [error |-> e.msg]]
\* Line 212
ToolNotFound(tool_name) == Raised("ValueError", "Tool " \o tool_name \o " not found")

\* The requests are served once startup is over and until shutdown begins.
Serving == startAllPc = "done" /\ shutPc = "idle"

\* Lines 257-261: tools/list
HandleList(c) ==
    /\ Arrives(c)
    /\ req' = [req EXCEPT ![c] = [method |-> "tools/list"]]
    /\ resp' = [resp EXCEPT ![c] = JSONResponse([tools |-> ListAllTools(servers, 1)])]
    /\ httpPc' = [httpPc EXCEPT ![c] = "done"]
    /\ UNCHANGED <<sent, got, startVars, childVars, servers, shutVars>>
    /\ UNCHANGED wfVars

\* The request handled while the application is serving
MessageList(c) ==
    /\ Serving
    /\ HandleList(c)

\* Lines 257-272: any other method
HandleUnknown(c) ==
    /\ Arrives(c)
    /\ req' = [req EXCEPT ![c] = [method |-> "unknown"]]
    /\ resp' = [resp EXCEPT ![c] = UnknownMethod]
    /\ httpPc' = [httpPc EXCEPT ![c] = "done"]
    /\ UNCHANGED <<sent, got, startVars, childVars, servers, shutVars>>
    /\ UNCHANGED wfVars

\* The request handled while the application is serving
MessageUnknown(c) ==
    /\ Serving
    /\ HandleUnknown(c)

\* Lines 263-268, 195-212 and 58-69: tools/call. call_tool finds the server and
\* the request is written to it before the task first suspends; when no server
\* has the tool, ValueError reaches the endpoint's except.
HandleCall(c) ==
    /\ Arrives(c)
    /\ \E body \in {b \in Bodies : b.method = "tools/call"} :
         LET i == FindServer(servers, body.params.name, 1)
         IN /\ req' = [req EXCEPT ![c] = body]
            /\ IF i = 0
               THEN /\ resp' = [resp EXCEPT ![c] = ErrorResponse(ToolNotFound(body.params.name))]
                    /\ httpPc' = [httpPc EXCEPT ![c] = "done"]
                    /\ UNCHANGED <<sent, childIn>>
               ELSE /\ sent' = [sent EXCEPT ![c] = Append(@, servers[i].name)]
                    /\ \E drained \in DrainOutcomes(servers[i].name) :
                         IF drained = "ok"
                         THEN /\ WriteRequest(servers[i].name,
                                              Request(HttpTask(c), "tools/call",
                                                      [name |-> body.params.name,
                                                       arguments |-> Arguments(body.params)]))
                              /\ httpPc' = [httpPc EXCEPT ![c] = "read"]
                              /\ UNCHANGED resp
                         ELSE /\ resp' = [resp EXCEPT ![c] = ErrorResponse(ConnectionLost)]
                              /\ httpPc' = [httpPc EXCEPT ![c] = "done"]
                              /\ UNCHANGED childIn
    /\ UNCHANGED <<got, proc, childOut, eof, waiter, sigterm, startVars, servers, shutVars>>
    /\ UNCHANGED wfVars

\* The request handled while the application is serving
MessageCall(c) ==
    /\ Serving
    /\ HandleCall(c)

\* Lines 83-87, 209-211 and 269-275 once _communicate_with_server is over with
\* outcome out: the result is the response, an exception is re-raised up to the
\* endpoint's except.
\* call_tool sending the request once more when the exchange failed
MessageFinishRetrying(c, out) ==
    IF ~out.ok /\ Len(sent[c]) < 2
    THEN /\ WriteRequest(sent[c][1],
                         Request(HttpTask(c), "tools/call",
                                 [name |-> req[c].params.name, arguments |-> Arguments(req[c].params)]))
         /\ sent' = [sent EXCEPT ![c] = Append(@, sent[c][1])]
         /\ httpPc' = [httpPc EXCEPT ![c] = "read"]
         /\ UNCHANGED <<resp, servers>>
    ELSE /\ resp' = [resp EXCEPT ![c] = IF out.ok THEN JSONResponse(out.val) ELSE ErrorResponse(out)]
         /\ httpPc' = [httpPc EXCEPT ![c] = "done"]
         /\ UNCHANGED <<sent, childIn, servers>>

\* call_tool dropping the server from the registry when the exchange failed
MessageFinishEvicting(c, out) ==
    /\ resp' = [resp EXCEPT ![c] = IF out.ok THEN JSONResponse(out.val) ELSE ErrorResponse(out)]
    /\ httpPc' = [httpPc EXCEPT ![c] = "done"]
    /\ servers' = IF out.ok THEN servers
                  ELSE SelectSeq(servers, LAMBDA e : e.name # sent[c][Len(sent[c])])
    /\ UNCHANGED <<sent, childIn>>

MessageFinish(c, out) ==
    /\ resp' = [resp EXCEPT ![c] = IF out.ok THEN JSONResponse(out.val) ELSE ErrorResponse(out)]
    /\ httpPc' = [httpPc EXCEPT ![c] = "done"]
    /\ UNCHANGED <<sent, childIn, servers>>

\* Lines 72-83: readline() on the stdout of the server the request went to.
MessageRead(c) ==
    /\ httpPc[c] \in {"read", "wait"}
    /\ LET s == sent[c][Len(sent[c])]
           rd == ReadLine(HttpTask(c), s)
       IN /\ CanRead(HttpTask(c), s, httpPc[c])
          /\ AfterRead(HttpTask(c), s, rd)
          /\ IF rd.act = "suspend"
             THEN /\ httpPc' = [httpPc EXCEPT ![c] = "wait"]
                  /\ UNCHANGED <<resp, sent, got, childIn, servers>>
             ELSE /\ MessageFinish(c, Communicated(rd))
                  /\ got' = [got EXCEPT ![c] = rd.line.re]
    /\ UNCHANGED <<req, proc, eof, sigterm, startVars, shutVars>>
    /\ UNCHANGED wfVars

\* the lines of a pipe as lines of tasks that are gone (field f names the task)
Disown(lines, f) == [k \in 1..Len(lines) |-> [lines[k] EXCEPT ![f] = Gone]]

\* Lines 261, 270, 272 and 275: the responses are returned and the tasks of
\* the requests are over; the requests that follow are served by new tasks.
MessageReturns ==
    /\ \A c \in Clients : httpPc[c] = "done"
    /\ Serving
    /\ \A s \in Names : Len(childIn[s]) + Len(childOut[s]) <= MaxBacklog
    /\ httpPc' = [c \in Clients |-> "idle"]
    /\ req' = [c \in Clients |-> NoReq]
    /\ sent' = [c \in Clients |-> <<>>]
    /\ got' = [c \in Clients |-> NoTask]
    /\ resp' = [c \in Clients |-> NoResp]
    /\ childIn' = [s \in Names |-> Disown(childIn[s], "from")]
    /\ childOut' = [s \in Names |-> Disown(childOut[s], "re")]
    /\ UNCHANGED <<proc, eof, waiter, sigterm, startVars, servers, shutVars>>
    /\ UNCHANGED wfVars

\* ------------------------------------------------------------------- shutdown
\* Lines 243-247, the application's shutdown event: startup is over, every
\* request has been answered and its task is gone, no further one is taken.
ShutdownStart ==
    /\ startAllPc = "done"
    /\ shutPc = "idle"
    /\ \A c \in Clients : httpPc[c] \in {"idle", "done"}
    /\ httpPc' = [c \in Clients |-> "closed"]
    /\ req' = [c \in Clients |-> NoReq]
    /\ sent' = [c \in Clients |-> <<>>]
    /\ got' = [c \in Clients |-> NoTask]
    /\ resp' = [c \in Clients |-> NoResp]
    /\ IF servers = <<>>
       THEN shutPc' = "done" /\ shutIdx' = 0
       ELSE shutPc' = "term" /\ shutIdx' = 1
    /\ UNCHANGED <<termSent, killSent, startVars, childVars, servers>>
    /\ UNCHANGED wfVars

\* Lines 216 and 228: the loop moves on to the next entry; after the last one,
\* self.servers.clear().
ShutdownNext ==
    IF shutIdx = Len(servers)
    THEN /\ servers' = <<>>
         /\ shutPc' = "done"
         /\ shutIdx' = 0
    ELSE /\ shutIdx' = shutIdx + 1
         /\ shutPc' = "term"
         /\ UNCHANGED servers

\* Lines 220-221: SIGTERM goes to the child's process group, and shutdown awaits
\* process.wait(). The pid of a child that has ended still takes the signal
\* until the child is reaped.
ShutdownTerm ==
    /\ shutPc = "term"
    /\ LET s == servers[shutIdx].name
       IN /\ termSent' = termSent \cup {s}
          /\ sigterm' = [sigterm EXCEPT ![s] = IF proc[s] = "running" THEN "pending" ELSE @]
    /\ shutPc' = "wait"
    /\ UNCHANGED <<shutIdx, killSent, proc, childIn, childOut, eof, waiter, startVars, servers, httpVars>>
    /\ UNCHANGED wfVars

\* Lines 220-227: the child has ended and was reaped, so os.getpgid raises
\* ProcessLookupError; the except logs, the SIGKILL attempt raises the same and
\* is passed over.
\* shutdown without the inner try: the failure of the SIGKILL attempt ends it
ShutdownTermFailsAborting ==
    /\ shutPc = "term"
    /\ proc[servers[shutIdx].name] = "exited"
    /\ killSent' = [killSent EXCEPT ![servers[shutIdx].name] = "failed"]
    /\ shutPc' = "done"
    /\ shutIdx' = 0
    /\ UNCHANGED <<servers, termSent, childVars, startVars, httpVars>>
    /\ UNCHANGED wfVars

ShutdownTermFails ==
    /\ shutPc = "term"
    /\ proc[servers[shutIdx].name] = "exited"
    /\ killSent' = [killSent EXCEPT ![servers[shutIdx].name] = "failed"]
    /\ ShutdownNext
    /\ UNCHANGED <<termSent, childVars, startVars, httpVars>>
    /\ UNCHANGED wfVars

\* Line 221: process.wait() returns once the child has ended.
ShutdownWait ==
    /\ shutPc = "wait"
    /\ proc[servers[shutIdx].name] = "exited"
    /\ ShutdownNext
    /\ UNCHANGED <<termSent, killSent, childVars, startVars, httpVars>>
    /\ UNCHANGED wfVars

\* ======================================================= the agent workflow
\* react_agent/graph.py: the LangGraph workflow of the orchestrator, planner
\* and coder agents and their two tool nodes. What a language model answers is
\* the environment's choice. The content of a message is kept as its form (a
\* string, or a list of blocks), the routing signals that its text holds and
\* whether a tool_use block is among its blocks.
StrContent(signals) == [form |-> "str", text |-> signals, tool_use |-> FALSE]
ListContent(signals, tool_use) == [form |-> "list", text |-> signals, tool_use |-> tool_use]

HumanMessage(content) == [type |-> "human", content |-> content]
\* base_agent.py lines 44-51: the agent returns {"role": "ai", "content": ...},
\* which the messages state turns into an AIMessage without tool_calls.
AIMessage(content) == [type |-> "ai", content |-> content]

OrchestratorSignals == {"CONTEXT COMPLETE", "CODE THIS MFER", "WORKFLOW COMPLETE"}
CoderSignals == {"I CODED IT MFER"}

\* what the model of an agent may answer with the given signals to choose from
Responses(signals) ==
    {StrContent(S) : S \in SUBSET signals}
        \cup {ListContent(S, u) : S \in SUBSET signals, u \in BOOLEAN}

\* graph.py lines 41-55, has_tool_calls
HasToolCalls(message) == message.content.form = "list" /\ message.content.tool_use

\* graph.py lines 57-65, extract_content: the signals found in the text
ExtractContent(message) == message.content.text

Last(msgs) == msgs[Len(msgs)]

\* graph.py lines 125-161, route_orchestrator
RouteOrchestrator(msgs) ==
    IF Last(msgs).type # "ai" THEN "orchestrator"
    ELSE IF HasToolCalls(Last(msgs)) THEN "MCP1"
    ELSE IF "CONTEXT COMPLETE" \in ExtractContent(Last(msgs)) THEN "planner"
    ELSE IF "CODE THIS MFER" \in ExtractContent(Last(msgs)) THEN "coder"
    ELSE IF "WORKFLOW COMPLETE" \in ExtractContent(Last(msgs)) THEN "done"
    ELSE "MCP1"

\* graph.py lines 163-182, route_coder
RouteCoder(msgs) ==
    IF Last(msgs).type # "ai" THEN "coder"
    ELSE IF HasToolCalls(Last(msgs)) THEN "MCP2"
    ELSE IF "I CODED IT MFER" \in ExtractContent(Last(msgs)) THEN "orchestrator"
    ELSE "MCP2"

\* graph.py lines 199-208: the targets of the orchestrator's conditional edges;
\* a route that is no key of the mapping is an error of the graph
OrchestratorEdges(route) ==
    IF route = "done" THEN "__end__"
    ELSE IF route \in {"planner", "coder", "MCP1"} THEN route
    ELSE "raised"

\* graph.py lines 214-221
CoderEdges(route) == IF route \in {"orchestrator", "MCP2"} THEN route ELSE "raised"

\* graph.py lines 95-123, execute_tool: the messages it adds. A tool_use block
\* of a known tool gives one HumanMessage (the result, or "Error: ..."); no
\* block, or a block of a tool that is not in TOOLS, gives none.
ExecuteToolMessages(msgs) ==
    IF HasToolCalls(Last(msgs))
    THEN {<<HumanMessage(StrContent({}))>>, <<>>}
    ELSE {<<>>}

\* the workflow may run one more step
CanStep == wfSteps < MaxSteps

\* graph.py lines 229-242 and 196, execute: the task is the first message and
\* the entry edge leads to the orchestrator.
Execute ==
    /\ wfNode = "__start__"
    /\ messages' = <<HumanMessage(StrContent({}))>>
    /\ wfNode' = "orchestrator"
    /\ UNCHANGED <<wfSteps, gatewayVars>>

\* graph.py lines 189 and 199-208, base_agent.py lines 27-51: the orchestrator
\* answers, and its conditional edges pick the next node.
OrchestratorRun ==
    /\ wfNode = "orchestrator"
    /\ CanStep
    /\ \E content \in Responses(OrchestratorSignals) :
         /\ messages' = Append(messages, AIMessage(content))
         /\ wfNode' = OrchestratorEdges(RouteOrchestrator(Append(messages, AIMessage(content))))
    /\ wfSteps' = wfSteps + 1
    /\ UNCHANGED gatewayVars

\* graph.py lines 190 and 211: the planner answers and returns to the orchestrator.
PlannerRun ==
    /\ wfNode = "planner"
    /\ CanStep
    /\ messages' = Append(messages, AIMessage(StrContent({})))
    /\ wfNode' = "orchestrator"
    /\ wfSteps' = wfSteps + 1
    /\ UNCHANGED gatewayVars

\* graph.py lines 191 and 214-221: the coder answers, and its conditional edges
\* pick the next node.
CoderRun ==
    /\ wfNode = "coder"
    /\ CanStep
    /\ \E content \in Responses(CoderSignals) :
         /\ messages' = Append(messages, AIMessage(content))
         /\ wfNode' = CoderEdges(RouteCoder(Append(messages, AIMessage(content))))
    /\ wfSteps' = wfSteps + 1
    /\ UNCHANGED gatewayVars

\* graph.py lines 192-193 and 224-225: a tool node runs execute_tool and goes
\* back to the agent it serves.
ExecuteTool(node) ==
    /\ wfNode = node
    /\ CanStep
    /\ \E added \in ExecuteToolMessages(messages) : messages' = messages \o added
    /\ wfNode' = (IF node = "MCP1" THEN "orchestrator" ELSE "coder")
    /\ wfSteps' = wfSteps + 1
    /\ UNCHANGED gatewayVars

\* graph.py line 241: the recursion limit is reached before the end node.
RecursionLimit ==
    /\ wfNode \in {"orchestrator", "planner", "coder", "MCP1", "MCP2"}
    /\ ~CanStep
    /\ wfNode' = "raised"
    /\ UNCHANGED <<messages, wfSteps, gatewayVars>>

WorkflowNext ==
    \/ Execute
    \/ OrchestratorRun
    \/ PlannerRun
    \/ CoderRun
    \/ \E node \in {"MCP1", "MCP2"} : ExecuteTool(node)
    \/ RecursionLimit

WorkflowSpec == Init /\ [][WorkflowNext]_vars

\* ================================================================ the gateway
Next ==
    \/ StartAllServers
    \/ StartAllGather
    \/ \E s \in Names : StartServerSpawn(s)
    \/ \E s \in Names : StartServerSpawnFails(s)
    \/ \E s \in Names : StartServerQuery(s)
    \/ \E s \in Names : StartServerRead(s)
    \/ \E s \in Names : MonitorStderr(s)
    \/ \E s \in Names : ChildReplies(s)
    \/ \E s \in Names : ChildHangs(s)
    \/ \E s \in Names : ChildExits(s)
    \/ \E s \in Names : ChildTerminates(s)
    \/ \E s \in Names : ChildIgnoresTerm(s)
    \/ \E c \in Clients : MessageList(c)
    \/ \E c \in Clients : MessageUnknown(c)
    \/ \E c \in Clients : MessageCall(c)
    \/ \E c \in Clients : MessageRead(c)
    \/ ShutdownStart
    \/ ShutdownTerm
    \/ ShutdownTermFails
    \/ ShutdownWait

Spec == Init /\ [][Next]_vars

\* What the event loop and the operating system guarantee: a task that can run
\* does run, and so does a child process. When an HTTP request arrives, when
\* the application is shut down and whether a child ends of its own accord is
\* up to the environment.
Scheduled ==
    \/ StartAllServers
    \/ StartAllGather
    \/ \E s \in Names : StartServerSpawn(s) \/ StartServerSpawnFails(s)
    \/ \E s \in Names : StartServerQuery(s) \/ StartServerRead(s)
    \/ \E s \in Names : MonitorStderr(s)
    \/ \E s \in Names : ChildReplies(s) \/ ChildHangs(s)
    \/ \E s \in Names : ChildTerminates(s) \/ ChildIgnoresTerm(s)
    \/ \E c \in Clients : MessageRead(c)
    \/ ShutdownTerm \/ ShutdownTermFails \/ ShutdownWait

FairSpec == Spec /\ WF_vars(Scheduled)

\* The gateway serving one round of requests after another: a round is the
\* requests whose tasks overlap, and the next begins when all have returned.
NextRounds ==
    \/ Next
    \/ MessageReturns

RoundsSpec == Init /\ [][NextRounds]_vars

\* Lines 214-228 entered while request tasks may still exist: shutdown itself
\* looks at no request and stops none, and the registry is cleared only after
\* the last wait (line 228).
ShutdownAmidRequests ==
    /\ startAllPc = "done"
    /\ shutPc = "idle"
    /\ IF servers = <<>>
       THEN shutPc' = "done" /\ shutIdx' = 0
       ELSE shutPc' = "term" /\ shutIdx' = 1
    /\ UNCHANGED <<termSent, killSent, startVars, childVars, servers, httpVars>>
    /\ UNCHANGED wfVars

\* The gateway's coroutines interleaved with no ordering from the application's
\* lifecycle: lines 250-275, 180-212 and 214-228 test no state of the gateway
\* before they act, so a request task may run while start_all_servers or
\* shutdown is suspended at an await.
\* The stderr monitor and the answer to an unknown method touch
\* neither the registry nor a link; they are left to Spec.
NextAnytime ==
    \/ StartAllServers
    \/ StartAllGather
    \/ \E s \in Names : StartServerSpawn(s)
    \/ \E s \in Names : StartServerSpawnFails(s)
    \/ \E s \in Names : StartServerQuery(s)
    \/ \E s \in Names : StartServerRead(s)
    \/ \E s \in Names : ChildReplies(s)
    \/ \E s \in Names : ChildHangs(s)
    \/ \E s \in Names : ChildExits(s)
    \/ \E s \in Names : ChildTerminates(s)
    \/ \E s \in Names : ChildIgnoresTerm(s)
    \/ \E c \in Clients : HandleList(c)
    \/ \E c \in Clients : HandleCall(c)
    \/ \E c \in Clients : MessageRead(c)
    \/ ShutdownAmidRequests
    \/ ShutdownTerm
    \/ ShutdownTermFails
    \/ ShutdownWait

AnytimeSpec == Init /\ [][NextAnytime]_vars

\* ----------------------------------------------------------------- properties
\* the positions of the entries of regs that advertise a tool named n
Owners(regs, n) ==
    {i \in 1..Len(regs) : \E j \in 1..Len(regs[i].tools) : regs[i].tools[j].name = n}

\* the task of request c has written its request and has not read a reply yet
InFlight(c) == httpPc[c] \in {"read", "wait"}

\* request c is a tools/call
IsCall(c) == req[c].method = "tools/call"

\* request c starts in this step
Starts(c) == httpPc[c] = "idle" /\ httpPc'[c] # "idle"

\* C1: two call_tool invocations that overlap on one server never interleave
\* their exchanges (no second request is written before the first reply is
\* read), and no caller is handed the reply to another caller's request.
C1_ExchangesSerialized ==
    /\ \A c, d \in Clients :
         (c # d /\ InFlight(c) /\ InFlight(d)) => sent[c][1] # sent[d][1]
    /\ \A c \in Clients :
         (httpPc[c] = "done" /\ got[c] # NoTask) => got[c] = HttpTask(c)

\* C2: a tools/call for a name that no registered server advertises ends, in
\* the step in which it starts, with the "Tool ... not found" ValueError, and
\* writes no request to any child.
C2_UnknownToolNeverForwarded ==
    [][\A c \in Clients :
         (Starts(c) /\ req'[c].method = "tools/call"
              /\ Owners(servers, req'[c].params.name) = {})
         => /\ httpPc'[c] = "done"
            /\ resp'[c].body = [error |-> "Tool " \o req'[c].params.name \o " not found"]
            /\ sent'[c] = <<>>
            /\ childIn' = childIn]_vars

C2_Witness ==
    \E c \in Clients :
        /\ httpPc[c] = "done"
        /\ IsCall(c)
        /\ req[c].params.name = "add"
        /\ resp[c].body = [error |-> "Tool add not found"]
        /\ Len(servers) = NumServers
        /\ \A i \in 1..Len(servers) : servers[i].tools = <<Echo>>

\* C3: a tools/call for a name that exactly one registered server advertises
\* writes its request to that server in the step in which it starts, and that
\* is the only request the invocation ever writes: no step of a started
\* invocation writes to a child, whatever the exchange came to.
C3_OneRequestToTheOwner ==
    [][\A c \in Clients :
         /\ (Starts(c) /\ req'[c].method = "tools/call"
                 /\ Cardinality(Owners(servers, req'[c].params.name)) = 1)
            => LET s == servers[CHOOSE i \in Owners(servers, req'[c].params.name) : TRUE].name
               IN /\ sent'[c] = <<s>>
                  /\ \A x \in Names \ {s} : childIn'[x] = childIn[x]
                  /\ proc[s] = "running" =>
                         /\ Len(childIn'[s]) = Len(childIn[s]) + 1
                         /\ childIn'[s][Len(childIn'[s])].from = HttpTask(c)
         /\ InFlight(c)
            => /\ sent'[c] = sent[c]
               /\ \A x \in Names : \A k \in 1..Len(childIn'[x]) :
                      childIn'[x][k].from = HttpTask(c)
                      => \E m \in 1..Len(childIn[x]) : childIn[x][m] = childIn'[x][k]]_vars

\* the exchange of a call routed to the one owner of its tool has failed, with
\* another server registered
C3_Witness ==
    \E c \in Clients :
        /\ httpPc[c] = "done"
        /\ IsCall(c)
        /\ req[c].params.name = "add"
        /\ resp[c].status_code = 500
        /\ Len(sent[c]) = 1
        /\ Len(servers) = NumServers
        /\ Cardinality(Owners(servers, "add")) = 1

\* the number of tools of the entries of regs before position i
RECURSIVE ToolsBefore(_, _)
ToolsBefore(regs, i) ==
    IF i <= 1 THEN 0 ELSE ToolsBefore(regs, i - 1) + Len(regs[i - 1].tools)

\* list is, entry by entry, the tool lists of regs one after the other, each
\* entry bearing its server's name
IsConcatenation(list, regs) ==
    /\ Len(list) = ToolsBefore(regs, Len(regs) + 1)
    /\ \A i \in 1..Len(regs) : \A j \in 1..Len(regs[i].tools) :
         LET e == list[ToolsBefore(regs, i) + j]
             tool == regs[i].tools[j]
         IN /\ e.name = tool.name
            /\ e.server = regs[i].name
            /\ e.description = (IF "description" \in DOMAIN tool THEN tool.description ELSE "")
            /\ ("input_schema" \in DOMAIN e) = ("input_schema" \in DOMAIN tool)
            /\ "input_schema" \in DOMAIN tool => e.input_schema = tool.input_schema
    /\ \A k \in 1..Len(list) : \E i \in 1..Len(regs) : regs[i].name = list[k].server

\* C4: in every state list_all_tools gives the registered servers' tool lists
\* one after the other, in registration order and then in each server's order,
\* each entry with its server's name, and no entry of a server that is not
\* registered; so does every tools/list response while the registry stands.
C4_ListIsConcatenation ==
    /\ IsConcatenation(ListAllTools(servers, 1), servers)
    /\ \A c \in Clients :
         (httpPc[c] = "done" /\ req[c].method = "tools/list")
         => /\ resp[c].status_code = 200
            /\ IsConcatenation(resp[c].body.tools, servers)

C4_Witness ==
    \E c \in Clients :
        /\ httpPc[c] = "done"
        /\ req[c].method = "tools/list"
        /\ Len(servers) = NumServers
        /\ servers[1].name # 1
        /\ servers[1].tools = <<Add, Echo>>
        /\ Len(resp[c].body.tools) = Len(servers) + 1

\* C5: once shutdown has begun it comes to its end, with the registry empty and
\* no child left running, whatever a child does with SIGTERM.
C5_ShutdownCompletes ==
    (shutPc # "idle") ~> (shutPc = "done" /\ servers = <<>> /\ \A s \in Names : proc[s] # "running")

\* C6: once start_all_servers awaits its start_server tasks it comes to return,
\* whatever a child does with its tools/list request.
C6_StartAllCompletes ==
    (startAllPc = "gather") ~> (startAllPc = "done")

\* C7: every HTTP request that the endpoint has taken gets its response.
C7_EveryRequestAnswered ==
    \A c \in Clients : InFlight(c) ~> (httpPc[c] = "done" /\ resp[c] # NoResp)

\* C8: an error response has the body {"error": <string>}; its status is a
\* client error for an unknown method and for a tools/call of a tool that no
\* server advertises, and a server error when the exchange with the backend
\* failed.
C8_ErrorStatuses ==
    \A c \in Clients :
        httpPc[c] = "done" =>
            /\ req[c].method = "unknown"
               => resp[c].status_code \in 400..499 /\ DOMAIN resp[c].body = {"error"}
            /\ (IsCall(c) /\ Owners(servers, req[c].params.name) = {})
               => resp[c].status_code \in 400..499 /\ DOMAIN resp[c].body = {"error"}
            /\ (IsCall(c) /\ sent[c] # <<>> /\ "error" \in DOMAIN resp[c].body)
               => resp[c].status_code \in 500..599 /\ DOMAIN resp[c].body = {"error"}

\* the line that readline() hands to the start_server task of s in this state
QueryLine(s) == IF childOut[s] # <<>> THEN Head(childOut[s]) ELSE EOFLine

\* the tools/list exchange failed: closed stream, no JSON, an error reply, or a
\* result that is null or holds a tool without a name
QueryFailed(line) ==
    \/ line.kind \in {"eof", "malformed", "error"}
    \/ /\ line.kind = "result"
       /\ \/ line.val = Null
          \/ /\ "tools" \in DOMAIN line.val
             /\ \E j \in 1..Len(line.val.tools) : "name" \notin DOMAIN line.val.tools[j]

\* the entry of name s is in the registry
IsRegistered(s) == \E i \in 1..Len(servers) : servers[i].name = s

\* C9: when the tools/list exchange of a starting server fails (on the line
\* read, or before it on the write), the server is registered with an empty
\* tool list in that step, its start_server task returns instead of raising,
\* and the entries of the other servers stay as they are; a start_server task
\* whose process was spawned never ends with an exception.
C9_FailedQueryRegistersEmpty ==
    [][\A s \in Names :
         /\ \/ /\ startPc[s] \in {"read", "wait"}
               /\ startPc'[s] \notin {"read", "wait"}
               /\ QueryFailed(QueryLine(s))
            \/ /\ startPc[s] = "sleep"
               /\ startPc'[s] # "read"
               /\ startPc'[s] # "sleep"
            => /\ startPc'[s] = "done"
               /\ servers' = Append(servers, [name |-> s, tools |-> <<>>])
               /\ \A x \in Names \ {s} : startPc'[x] = startPc[x]
         /\ startPc[s] \in {"sleep", "read", "wait"} => startPc'[s] # "failed"]_vars

\* the query of one server failed and the server is registered without tools,
\* next to a server registered with its tools
C9_Witness ==
    /\ startAllPc = "done"
    /\ \E s, x \in Names :
         /\ s \in queryErrors
         /\ startPc[s] = "done"
         /\ \E i \in 1..Len(servers) : servers[i].name = s /\ servers[i].tools = <<>>
         /\ \E i \in 1..Len(servers) : servers[i].name = x /\ servers[i].tools = <<Add, Echo>>

\* C10: start_all_servers raises only for a configuration without servers; once
\* it has returned, no server whose spawn failed is registered and every
\* configured server whose process was spawned is.
C10_SpawnFailureIsolated ==
    /\ startAllPc = "raised" => configured = {}
    /\ (startAllPc = "done" /\ shutPc # "done") =>
         \A s \in configured :
            /\ startPc[s] = "failed" => ~IsRegistered(s) /\ proc[s] = "none"
            /\ proc[s] # "none" => IsRegistered(s)

C10_Witness ==
    /\ startAllPc = "done"
    /\ \E s, x \in configured :
         /\ startPc[s] = "failed"
         /\ ~IsRegistered(s)
         /\ startPc[x] = "done"
         /\ \E i \in 1..Len(servers) : servers[i].name = x /\ servers[i].tools # <<>>

\* the server that the call of request c was written to
Target(c) == sent[c][Len(sent[c])]

\* no request other than c is in flight on the server s
OnlyOn(c, s) == \A d \in Clients \ {c} : ~(InFlight(d) /\ Target(d) = s)

\* the stream of s's stdout has something to hand to readline()
Readable(s) == childOut[s] # <<>> \/ eof[s]

\* C11: a call that is alone on its server completes in one step of its task as
\* soon as its backend's stdout has a line or is closed, whatever calls are in
\* flight on other servers, and whether or not their backends ever reply.
C11_CallsIndependent ==
    \A c \in Clients :
        (InFlight(c) /\ OnlyOn(c, Target(c)) /\ Readable(Target(c)))
        => ENABLED (MessageRead(c) /\ httpPc'[c] = "done")

\* a call has its backend's reply as a 200 response while an earlier call to
\* another server is still suspended, that server having written nothing
C11_Witness ==
    \E c, d \in Clients :
        /\ d < c
        /\ httpPc[c] = "done"
        /\ IsCall(c)
        /\ resp[c].status_code = 200
        /\ got[c] = HttpTask(c)
        /\ httpPc[d] = "wait"
        /\ Target(d) # Target(c)
        /\ childOut[Target(d)] = <<>>
        /\ ~eof[Target(d)]

FirstOfRound(c) == \A d \in Clients \ {c} : httpPc[d] = "idle"

\* C13: a tools/call that is alone on the link of its tool's server from its
\* start to its end (every earlier request has returned, no other has begun)
\* writes that server a tools/call request whose params are exactly the name
\* and the arguments, and the line it reads is the reply to that request,
\* whose result is its response.
C13_CallReturnsItsReply ==
    [][\A c \in Clients :
         FirstOfRound(c) =>
            /\ (Starts(c) /\ httpPc'[c] = "read")
               => LET q == childIn'[Target(c)'] IN
                  /\ proc[Target(c)'] = "running" => q # <<>>
                  /\ q # <<>> =>
                        /\ q[Len(q)].method = "tools/call"
                        /\ q[Len(q)].params = [name |-> req'[c].params.name,
                                                arguments |-> Arguments(req'[c].params)]
            /\ (InFlight(c) /\ httpPc'[c] = "done" /\ childOut[Target(c)] # <<>>)
               => /\ Head(childOut[Target(c)]).re = HttpTask(c)
                  /\ Head(childOut[Target(c)]).kind = "result"
                     => resp'[c] = JSONResponse(Head(childOut[Target(c)]).val)]_vars

\* the tools that list_all_tools gives for the server named s
ToolsOf(regs, s) == {k \in 1..Len(ListAllTools(regs, 1)) : ListAllTools(regs, 1)[k].server = s}

\* C14: in every state no two entries of the registry bear one name, every
\* entry that holds tools is the entry of a running process, and every tool
\* that is listed is the tool of a registered server (no tool outlives the
\* entry of its server).
C14_ToolsHaveLiveOwner ==
    /\ \A i \in 1..Len(servers) :
         /\ \A j \in 1..Len(servers) : servers[i].name = servers[j].name => i = j
         /\ servers[i].tools # <<>> => proc[servers[i].name] = "running"
    /\ \A s \in Names : ~IsRegistered(s) => ToolsOf(servers, s) = {}

\* C15: start_all_servers goes on to start servers only with a configuration
\* that names one at least; when it has raised for the lack of them, no child
\* was spawned, no start_server task was created and the registry is empty.
C15_NoServersIsConfigError ==
    /\ startAllPc \in {"gather", "done"} => configured # {}
    /\ startAllPc = "raised"
       => /\ servers = <<>>
          /\ \A s \in Names : proc[s] = "none" /\ startPc[s] = "none"

\* start_all_servers has raised, with nothing started
C15_Witness ==
    /\ startAllPc = "raised"
    /\ configured = {}
    /\ servers = <<>>
    /\ \A s \in Names : proc[s] = "none"

\* C16: once a call has failed on the closed stdout of its server, that server
\* is no longer running nor registered, and its tools are no longer listed.
C16_ClosedLinkDestroysChild ==
    \A c \in Clients :
        (httpPc[c] = "done" /\ IsCall(c) /\ sent[c] # <<>>
            /\ resp[c].body = [error |-> "Empty response"])
        => /\ proc[Target(c)] # "running"
           /\ ~IsRegistered(Target(c))
           /\ ToolsOf(servers, Target(c)) = {}

\* C17: SIGKILL is attempted for a child only in the step of shutdown's loop
\* that attempted SIGTERM for it, it is attempted whenever that SIGTERM attempt
\* fails, and a child still running after SIGTERM was sent to it comes to be
\* sent SIGKILL unless it ends.
C17_KillEscalation ==
    /\ [][\A s \in Names :
            /\ killSent'[s] # killSent[s] => (shutPc = "term" /\ servers[shutIdx].name = s)
            /\ (shutPc = "term" /\ servers[shutIdx].name = s /\ s \notin termSent'
                   /\ (shutPc' = "done" \/ shutIdx' # shutIdx))
               => killSent'[s] # "none"]_vars
    /\ \A s \in Names :
         (s \in termSent /\ proc[s] = "running")
         ~> (proc[s] # "running" \/ killSent[s] # "none")

\* C18: a child whose process runs has its _monitor_stderr task running.
C18_StderrAlwaysDrained ==
    \A s \in Names : proc[s] = "running" => monitor[s] = "running"

\* C19: no step of a message_endpoint task changes the registry, whatever the
\* request and its outcome; the registry changes only by start_server adding
\* the entry of its server after the entries there, and by shutdown emptying it.
C19_RequestsLeaveRegistry ==
    [][/\ (\E c \in Clients : httpPc'[c] # httpPc[c]) => servers' = servers
       /\ servers' # servers
          => \/ \E s \in Names :
                  /\ startPc[s] \in {"sleep", "read", "wait"}
                  /\ startPc'[s] = "done"
                  /\ ~IsRegistered(s)
                  /\ Len(servers') = Len(servers) + 1
                  /\ servers'[Len(servers')].name = s
                  /\ \A i \in 1..Len(servers) : servers'[i] = servers[i]
             \/ /\ shutPc \in {"term", "wait"}
                /\ shutPc' = "done"
                /\ servers' = <<>>]_vars

\* a call has failed on its server, a tools/list was answered, and the server
\* is registered with its tools as before
C19_Witness ==
    \E c, d \in Clients :
        /\ httpPc[c] = "done" /\ IsCall(c) /\ sent[c] # <<>>
        /\ resp[c].status_code = 500
        /\ httpPc[d] = "done" /\ req[d].method = "tools/list"
        /\ resp[d].body.tools # <<>>
        /\ Len(servers) = NumServers
        /\ \E i \in 1..Len(servers) : servers[i].name = Target(c) /\ servers[i].tools # <<>>

\* C20: a step of shutdown in which the termination of a server fails (SIGTERM
\* and then SIGKILL could not be sent) moves on to the next registered server,
\* or, after the last, empties the registry; and when shutdown ends, the
\* registry is empty and the termination of every server that was registered
\* has been attempted.
C20_ShutdownPastErrors ==
    [][/\ \A s \in Names :
            (killSent[s] = "none" /\ killSent'[s] = "failed")
            => IF shutIdx < Len(servers)
               THEN shutPc' = "term" /\ shutIdx' = shutIdx + 1 /\ servers' = servers
               ELSE shutPc' = "done" /\ servers' = <<>>
       /\ (shutPc # "done" /\ shutPc' = "done")
          => /\ servers' = <<>>
             /\ \A s \in Names :
                  startPc[s] = "done" => (s \in termSent' \/ killSent'[s] # "none")]_vars

\* the termination of the first server has failed and shutdown has sent
\* SIGTERM to the second and awaits it
C20_Witness ==
    /\ shutPc = "wait"
    /\ shutIdx = 2
    /\ killSent[servers[1].name] = "failed"
    /\ servers[2].name \in termSent

\* C21: a tools/call for a name that several registered servers advertise
\* writes its one request to the first of them in registration order, in the
\* step in which it starts, and to no other server; no later step of the call
\* writes to any server, however the exchange with the first one ends.
C21_FirstRegisteredWins ==
    [][\A c \in Clients :
         /\ (Starts(c) /\ req'[c].method = "tools/call"
                 /\ Cardinality(Owners(servers, req'[c].params.name)) > 1)
            => LET o == Owners(servers, req'[c].params.name)
                   first == CHOOSE i \in o : \A k \in o : i <= k
               IN /\ sent'[c] = <<servers[first].name>>
                  /\ \A x \in Names \ {servers[first].name} : childIn'[x] = childIn[x]
         /\ (InFlight(c) /\ Cardinality(Owners(servers, req[c].params.name)) > 1)
            => /\ sent'[c] = sent[c]
               /\ \A x \in Names : \A k \in 1..Len(childIn'[x]) :
                      childIn'[x][k].from = HttpTask(c)
                      => \E m \in 1..Len(childIn[x]) : childIn[x][m] = childIn'[x][k]]_vars

\* both servers advertise "echo", the one registered first is not the first of
\* the configuration, and a call of echo has failed on it without any request
\* to the other
C21_Witness ==
    \E c \in Clients :
        /\ Len(servers) = NumServers
        /\ servers[1].name # 1
        /\ Cardinality(Owners(servers, "echo")) = NumServers
        /\ httpPc[c] = "done"
        /\ IsCall(c)
        /\ req[c].params.name = "echo"
        /\ resp[c].status_code = 500
        /\ sent[c] = <<servers[1].name>>

\* C22: when the answer that the orchestrator has just given holds the text
\* WORKFLOW COMPLETE, the node that follows is the end of the graph.
C22_WorkflowCompleteEnds ==
    [][(wfNode = "orchestrator" /\ wfSteps' = wfSteps + 1
           /\ "WORKFLOW COMPLETE" \in Last(messages').content.text)
       => wfNode' = "__end__"]_vars

\* the start_server task of s has its process and is not through with the
\* tools/list exchange
Querying(s) == startPc[s] \in {"sleep", "read", "wait"}

\* the entries of the servers whose start_server task is over
Started(regs) == SelectSeq(regs, LAMBDA e : startPc[e.name] = "done")

\* C23: a server is in the registry only once its start_server task is past
\* the tools/list exchange, whether that succeeded or failed; so while the
\* exchange of a server is under way no call of a request task is in flight on
\* that server and nothing but the startup request and its reply is on the
\* link, and a tools/list answered meanwhile lists the tools of the servers
\* that are through with it and of no other.
C23_RegisteredAfterQuery ==
    [][/\ \A s \in Names : (IsRegistered(s))' => startPc'[s] = "done"
       /\ \A s \in Names : (Querying(s))' =>
            /\ \A c \in Clients : ~(InFlight(c) /\ Target(c) = s)'
            /\ \A k \in 1..Len(childIn'[s]) : childIn'[s][k].from = StartTask(s)
            /\ \A k \in 1..Len(childOut'[s]) : childOut'[s][k].re = StartTask(s)
            /\ waiter'[s] \in {NoTask, StartTask(s)}
       /\ \A c \in Clients :
            (Starts(c) /\ req'[c].method = "tools/list")
            => resp'[c] = JSONResponse([tools |-> ListAllTools(Started(servers), 1)])]_vars

\* a call was answered by a registered server, and a tools/list was answered
\* with the tools of that server alone, while the startup exchange of another
\* server is still waiting for its reply
C23_Witness ==
    \E c, d \in Clients : \E s, x \in Names :
        /\ startPc[x] = "wait"
        /\ ~IsRegistered(x)
        /\ IsRegistered(s)
        /\ httpPc[c] = "done"
        /\ IsCall(c)
        /\ sent[c] = <<s>>
        /\ resp[c].status_code = 200
        /\ httpPc[d] = "done"
        /\ req[d].method = "tools/list"
        /\ resp[d] = JSONResponse([tools |-> <<ToolDict(Echo, s)>>])

====
